---- MODULE Spec2Model ----
(***************************************************************************)
(* Model of the wall-e gallery's repository-tree fetcher and cache         *)
(* (src/lib/github-api.ts), of the engine switch of EngineProvider         *)
(* (contexts/EngineContext.tsx) and of the data load of App.tsx; of the     *)
(* engine registry kept in localStorage (lib/engine-storage.ts) with the   *)
(* provider and form operations over it; and of the gallery: the image     *)
(* list, categories and category tree of a repository listing, the         *)
(* category filter, search and sort of App.filteredImages                  *)
(* (lib/category-tree.ts, App.tsx), the pages of hooks/useInfiniteScroll.ts *)
(* and the continuation of App's data load.                                *)
(*                                                                         *)
(* JavaScript runs one callback at a time: every action below is one       *)
(* synchronous run of a handler or of the continuation of an await.        *)
(***************************************************************************)
EXTENDS Integers, Sequences, FiniteSets, TLC

VARIABLES
    engineCache,        \* Map<string, GitHubTreeResponse>, as a set of entries
    inflightRequests,   \* Map<string, Promise>, as a set of entries
    promises,           \* the request promises created by fetchRepoTree, in creation order
    calls,              \* the fetchRepoTree calls made so far and what each returned
    fetchCount,         \* number of network fetch() invocations per engine id
    activeEngine,       \* EngineProvider's activeEngine state (its id)
    storedMetadata,     \* the localStorage item 'wallpaper-engines' (EngineMetadata)
    effectPending,      \* App's data-load effect is scheduled (activeEngine changed)
    outstandingAtSwitch,\* history: promises of the old engine that were pending at a switch
    lastOp,             \* history: the handler that ran last
    expandedKeys,       \* engine ids that have a localStorage item 'expanded-categories-<id>'
    allEngines,         \* EngineProvider's allEngines state (the ids, in order)
    result,             \* what the last addEngine, removeEngine or refreshEngines returned or threw
    lastEngine,         \* history: the engine handed to the last addEngine, or the
                        \* engine that was active when the last removeEngine ran
    allImages,          \* App's allImages state
    categories,         \* App's categories state
    categoryTree,       \* App's categoryTree state
    selectedCategory,   \* App's selectedCategory state
    searchQuery,        \* App's searchQuery state
    sortOption,         \* App's sortOption state
    displayedImages,    \* useInfiniteScroll's displayedImages state
    page,               \* useInfiniteScroll's page state
    hasMore,            \* useInfiniteScroll's hasMore state
    closure,            \* the page and hasMore that the last render handed to fetchMore
    filtered,           \* App's filteredImages of the last render, the hook's allImages
    args,               \* the arguments of a call of a pure function
    returned,           \* what that call returned
    loading,            \* App's loading state
    shownData,          \* the snapshot that App's allImages, categories and
                        \* categoryTree were derived from by loadData
    loadsDone           \* the loadData runs that have finished

\* the variables of the engine registry and of the gallery filter
registryVars == <<expandedKeys, allEngines, result, lastEngine>>

appVars == <<allImages, categories, categoryTree, selectedCategory, searchQuery, sortOption>>

hookVars == <<displayedImages, page, hasMore, closure, filtered>>

pureVars == <<args, returned>>

loadVars == <<loading, shownData, loadsDone>>

galleryVars == <<appVars, hookVars, pureVars, loadVars>>

vars == <<engineCache, inflightRequests, promises, calls, fetchCount,
          activeEngine, storedMetadata, effectPending, outstandingAtSwitch, lastOp,
          expandedKeys, allEngines, result, lastEngine,
          allImages, categories, categoryTree, selectedCategory, searchQuery, sortOption,
          displayedImages, page, hasMore, closure, filtered, args, returned,
          loading, shownData, loadsDone>>

\* ---------------------------------------------------------------- bounds
MaxCalls == 3
MaxFetches == 2
MaxCustom == 2
PageSize == 2
MaxDisplayed == 6
MaxPage == 3
MaxPageSize == 3
MaxLoads == 2

\* ---------------------------------------------------------------- engines
\* An Engine, reduced to its id and the fields that identify the repository;
\* "" is the empty string.
Engine(id, repoOwner, repoName, branch) ==
    [id |-> id, repoOwner |-> repoOwner, repoName |-> repoName, branch |-> branch]

NoEngine == Engine("", "", "", "")

\* DEFAULT_ENGINES (data/default-engines.json) and the custom engines stored
\* at the start.
DEFAULT_ENGINES == <<Engine("e1", "dharmx", "walls", "main")>>
CustomEngines == <<Engine("e2", "o2", "r2", "main")>>

getAllEngines(customEngines) == DEFAULT_ENGINES \o customEngines

getDefaultEngine == DEFAULT_ENGINES[1]

Ids(engines) == {engines[i].id : i \in 1..Len(engines)}

IdList(engines) == [i \in 1..Len(engines) |-> engines[i].id]

EngineIds == Ids(getAllEngines(CustomEngines))

\* ids a caller may pass to switchEngine: the registered ones and an unknown one
SwitchTargets == EngineIds \cup {"unknown"}

\* ---------------------------------------------------------------- Map
MapHas(m, k) == \E e \in m : e.key = k

MapGet(m, k) == (CHOOSE e \in m : e.key = k).value

MapSet(m, k, v) == {e \in m : e.key # k} \cup {[key |-> k, value |-> v]}

MapDelete(m, k) == {e \in m : e.key # k}

\* ---------------------------------------------------------------- values
NoValue == [tag |-> "none", engine |-> "", obj |-> 0, name |-> "", message |-> <<>>]

\* the object response.json() of request p yields for an engine
TreeData(id, p) == [tag |-> "data", engine |-> id, obj |-> p, name |-> "", message |-> <<>>]

ErrorValue(name, message) ==
    [tag |-> "error", engine |-> "", obj |-> 0, name |-> name, message |-> message]

\* HTTP status codes the remote may answer with, and the reason phrase
\* (response.statusText) that may accompany each: the standard phrase, the
\* phrase GitHub sends for an exhausted quota, or none (HTTP/2 has no phrase).
OkStatus == 200
Forbidden == 403
NotFound == 404
OtherStatuses == {500}
Statuses == {OkStatus, Forbidden, NotFound} \cup OtherStatuses

StatusTexts(s) ==
    {<<>>} \cup
    (CASE s = OkStatus -> {<<"OK">>}
       [] s = Forbidden -> {<<"Forbidden">>, <<"rate", "limit", "exceeded">>}
       [] s = NotFound -> {<<"Not", "Found">>}
       [] OTHER -> {<<"Internal", "Server", "Error">>})

\* `Failed to fetch repository tree: ${response.statusText}`
FetchErrorMessage(statusText) ==
    <<"Failed", "to", "fetch", "repository", "tree:">> \o statusText

\* String.prototype.includes over a message of words
Includes(message, words) ==
    \E i \in 0..(Len(message) - Len(words)) :
        \A j \in 1..Len(words) : message[i + j] = words[j]

isRateLimitError(error) ==
    /\ error.tag = "error"
    /\ \/ Includes(error.message, <<"rate", "limit">>)
       \/ Includes(error.message, <<"403">>)

\* ---------------------------------------------------------------- fetchRepoTree
\* The synchronous part of one fetchRepoTree(engine) call, as a function of
\* the module state st = [inflight, promises, calls, fetchCount].
\* variant: the cache is never consulted
CacheHit_Never(id) == FALSE

\* if (engineCache.has(engine.id))
CacheHit(id) == MapHas(engineCache, id)

\* variant: the in-flight map is never consulted
InflightHit_Never(st, id) == FALSE

\* if (inflightRequests.has(engine.id))
InflightHit(st, id) == MapHas(st.inflight, id)

\* variant: the request promise is not stored
RegisterInflight_Skip(inflight, id, p) == inflight

\* inflightRequests.set(engine.id, requestPromise)
RegisterInflight(inflight, id, p) == MapSet(inflight, id, p)

NewCall(id, via, p, state, value) ==
    [engine |-> id, via |-> via, promise |-> p, state |-> state, value |-> value]

\* variant: one cache and one in-flight promise shared by all engines
fetchRepoTree_Shared(st, id) ==
    IF engineCache # {}
    THEN [st EXCEPT !.calls = Append(@, NewCall(id, "cache", 0, "fulfilled",
                                               (CHOOSE e \in engineCache : TRUE).value))]
    ELSE IF st.inflight # {}
    THEN LET p == (CHOOSE e \in st.inflight : TRUE).value IN
         [st EXCEPT !.calls = Append(@, NewCall(id, "dedup", p, st.promises[p].state,
                                               st.promises[p].value))]
    ELSE LET p == Len(st.promises) + 1 IN
         [st EXCEPT !.promises = Append(@, [engine |-> id, step |-> "fetch",
                                            state |-> "pending", status |-> 0,
                                            value |-> NoValue]),
                    !.inflight = RegisterInflight(@, id, p),
                    !.fetchCount[id] = @ + 1,
                    !.calls = Append(@, NewCall(id, "fetch", p, "pending", NoValue))]

fetchRepoTree(st, id) ==
    IF CacheHit(id)
    THEN [st EXCEPT !.calls = Append(@, NewCall(id, "cache", 0, "fulfilled",
                                               MapGet(engineCache, id)))]
    ELSE IF InflightHit(st, id)
    THEN LET p == MapGet(st.inflight, id) IN
         [st EXCEPT !.calls = Append(@, NewCall(id, "dedup", p, st.promises[p].state,
                                               st.promises[p].value))]
    ELSE LET p == Len(st.promises) + 1 IN
         [st EXCEPT !.promises = Append(@, [engine |-> id, step |-> "fetch",
                                            state |-> "pending", status |-> 0,
                                            value |-> NoValue]),
                    !.inflight = RegisterInflight(@, id, p),
                    !.fetchCount[id] = @ + 1,
                    !.calls = Append(@, NewCall(id, "fetch", p, "pending", NoValue))]

CurrentState ==
    [inflight |-> inflightRequests, promises |-> promises,
     calls |-> calls, fetchCount |-> fetchCount]

Adopt(st) ==
    /\ inflightRequests' = st.inflight
    /\ promises' = st.promises
    /\ calls' = st.calls
    /\ fetchCount' = st.fetchCount

Op(op, id, p) == [op |-> op, id |-> id, p |-> p]

\* a caller invokes fetchRepoTree for an engine
GetSnapshot(id) ==
    LET st == fetchRepoTree(CurrentState, id) IN
    /\ Len(st.calls) <= MaxCalls
    /\ Len(st.promises) <= MaxFetches
    /\ Adopt(st)
    /\ lastOp' = Op("getSnapshot", id, 0)
    /\ UNCHANGED <<engineCache, activeEngine, storedMetadata, effectPending,
                   outstandingAtSwitch>>
    /\ UNCHANGED <<registryVars, galleryVars>>

\* ---------------------------------------------------------------- request promise
\* Settling request promise p with an outcome settles every call that returned it.
SettleCalls(p, state, value) ==
    [c \in 1..Len(calls) |->
        IF calls[c].promise = p
        THEN [calls[c] EXCEPT !.state = state, !.value = value]
        ELSE calls[c]]

Pending(p, step) ==
    /\ p \in 1..Len(promises)
    /\ promises[p].state = "pending"
    /\ promises[p].step = step

\* variant: no finally block
Finally_KeepMarker(p) == inflightRequests

\* finally { inflightRequests.delete(engine.id) }
Finally(p) == MapDelete(inflightRequests, promises[p].engine)

\* variant: nothing is stored
CacheStore_Never(id, data) == engineCache

\* variant: only the data of the active engine is cached
CacheStore_IfActive(id, data) ==
    IF id = activeEngine THEN MapSet(engineCache, id, data) ELSE engineCache

\* engineCache.set(engine.id, data)
CacheStore(id, data) == MapSet(engineCache, id, data)

Reject(p, status, error) ==
    /\ promises' = [promises EXCEPT ![p].state = "rejected", ![p].status = status,
                                    ![p].value = error]
    /\ calls' = SettleCalls(p, "rejected", error)
    /\ inflightRequests' = Finally(p)
    /\ UNCHANGED <<engineCache, fetchCount, activeEngine, storedMetadata,
                   effectPending, outstandingAtSwitch>>
    /\ UNCHANGED <<registryVars, galleryVars>>

\* fetch() rejects: the request never got a response
FetchRejected(p) ==
    /\ Pending(p, "fetch")
    /\ Reject(p, 0, ErrorValue("TypeError", <<"Failed", "to", "fetch">>))
    /\ lastOp' = Op("fetchRejected", promises[p].engine, p)

\* variant: the status is not looked at
responseOk_Always(status) == TRUE

\* response.ok: the status is in the range 200-299
responseOk(status) == status >= OkStatus /\ status < OkStatus + 100

\* the answers of the remote that the cache specification draws from
CacheAnswers == {<<OkStatus, <<"OK">> >>, <<NotFound, <<"Not", "Found">> >>}

\* the response arrives: throw on a non-success status, else await response.json()
Response(p, status, statusText) ==
    /\ Pending(p, "fetch")
    /\ IF responseOk(status)
       THEN /\ promises' = [promises EXCEPT ![p].step = "json", ![p].status = status]
            /\ UNCHANGED <<engineCache, inflightRequests, calls, fetchCount,
                           activeEngine, storedMetadata, effectPending,
                           outstandingAtSwitch>>
            /\ UNCHANGED <<registryVars, galleryVars>>
       ELSE Reject(p, status, ErrorValue("Error", FetchErrorMessage(statusText)))
    /\ lastOp' = Op("response", promises[p].engine, p)

\* response.json() rejects: the body is not JSON
JsonRejected(p) ==
    /\ Pending(p, "json")
    /\ Reject(p, promises[p].status, ErrorValue("SyntaxError", <<"Unexpected", "token">>))
    /\ lastOp' = Op("jsonRejected", promises[p].engine, p)

\* response.json() resolves: cache the data and return it
JsonResolved(p) ==
    LET id == promises[p].engine
        data == TreeData(id, p) IN
    /\ Pending(p, "json")
    /\ engineCache' = CacheStore(id, data)
    /\ promises' = [promises EXCEPT ![p].state = "fulfilled", ![p].value = data]
    /\ calls' = SettleCalls(p, "fulfilled", data)
    /\ inflightRequests' = Finally(p)
    /\ lastOp' = Op("jsonResolved", id, p)
    /\ UNCHANGED <<fetchCount, activeEngine, storedMetadata, effectPending,
                   outstandingAtSwitch>>
    /\ UNCHANGED <<registryVars, galleryVars>>

\* ---------------------------------------------------------------- cache clearing
\* variant: nothing is deleted
ClearedCache_Nothing(id) == engineCache

\* variant: every entry is deleted
ClearedCache_Everything(id) == {}

\* variant: the entries of the other engines are deleted
ClearedCache_Others(id) == {e \in engineCache : e.key = id}

\* engineCache.delete(engineId)
ClearedCache(id) == MapDelete(engineCache, id)

clearEngineCache(id) ==
    /\ engineCache' = ClearedCache(id)
    /\ lastOp' = Op("clearEngineCache", id, 0)
    /\ UNCHANGED <<inflightRequests, promises, calls, fetchCount, activeEngine,
                   storedMetadata, effectPending, outstandingAtSwitch>>
    /\ UNCHANGED <<registryVars, galleryVars>>

clearAllCaches ==
    /\ engineCache' = {}
    /\ lastOp' = Op("clearAllCaches", "", 0)
    /\ UNCHANGED <<inflightRequests, promises, calls, fetchCount, activeEngine,
                   storedMetadata, effectPending, outstandingAtSwitch>>
    /\ UNCHANGED <<registryVars, galleryVars>>

\* ---------------------------------------------------------------- engine-storage
\* The localStorage item under STORAGE_KEY: absent, a string JSON.parse
\* rejects, or an object with the fields activeEngineId ("" when the field is
\* missing) and customEngines (an array, missing, or null).
Absent == [tag |-> "absent", activeEngineId |-> "", customEngines |-> <<>>]

Unparsable == [tag |-> "unparsable", activeEngineId |-> "", customEngines |-> <<>>]

Json(activeEngineId, customEngines) ==
    [tag |-> "json", activeEngineId |-> activeEngineId, customEngines |-> customEngines]

JsonNoList(activeEngineId) ==
    [tag |-> "jsonNoList", activeEngineId |-> activeEngineId, customEngines |-> <<>>]

JsonNullList(activeEngineId) ==
    [tag |-> "jsonNullList", activeEngineId |-> activeEngineId, customEngines |-> <<>>]

Metadata(activeEngineId, customEngines) ==
    [activeEngineId |-> activeEngineId, customEngines |-> customEngines]

\* activeExists ? parsed.activeEngineId : getDefaultEngine().id
CheckedActiveId(activeEngineId, engines) ==
    IF activeEngineId \in Ids(engines) THEN activeEngineId ELSE getDefaultEngine.id

\* loadEngineMetadata: the stored metadata, or the default metadata when
\* nothing is stored or reading it throws (JSON.parse of an unparsable
\* string, the spread of a null customEngines)
loadEngineMetadata(stored) ==
    IF stored.tag \in {"absent", "unparsable", "jsonNullList"}
    THEN Metadata(getDefaultEngine.id, <<>>)
    ELSE Metadata(CheckedActiveId(stored.activeEngineId,
                                  getAllEngines(stored.customEngines)),
                  stored.customEngines)

\* What a registry operation leaves behind: the stored item, the
\* expanded-categories keys, the error it threw (<<>> if none) and the
\* engine it returned (NoEngine if none).
Outcome(stored, expanded, thrown, engine) ==
    [stored |-> stored, expanded |-> expanded, thrown |-> thrown, engine |-> engine]

\* saveEngineMetadata: localStorage.setItem may throw (quota, private mode)
saveEngineMetadata(stored, expanded, metadata, saveOk) ==
    IF saveOk
    THEN Outcome(Json(metadata.activeEngineId, metadata.customEngines), expanded,
                 <<>>, NoEngine)
    ELSE Outcome(stored, expanded, <<"Failed to save engine configuration">>, NoEngine)

\* variant: the stored item is read as it is, without a fallback
getActiveEngine_Raw(stored) ==
    LET engines == getAllEngines(stored.customEngines)
        found == {i \in 1..Len(engines) : engines[i].id = stored.activeEngineId} IN
    IF found # {}
    THEN engines[CHOOSE i \in found : \A j \in found : i <= j]
    ELSE NoEngine

getActiveEngine(stored) ==
    LET metadata == loadEngineMetadata(stored)
        engines == getAllEngines(metadata.customEngines)
        found == {i \in 1..Len(engines) : engines[i].id = metadata.activeEngineId} IN
    IF found # {}
    THEN engines[CHOOSE i \in found : \A j \in found : i <= j]
    ELSE getDefaultEngine

\* variant: every id is accepted
KnownEngine_Any(engineId, engines) == TRUE

\* allEngines.some(e => e.id === engineId)
KnownEngine(engineId, engines) == engineId \in Ids(engines)

setActiveEngine(stored, expanded, engineId, saveOk) ==
    LET metadata == loadEngineMetadata(stored) IN
    IF ~KnownEngine(engineId, getAllEngines(metadata.customEngines))
    THEN Outcome(stored, expanded, <<"Engine not found:", engineId>>, NoEngine)
    ELSE saveEngineMetadata(stored, expanded,
                            Metadata(engineId, metadata.customEngines), saveOk)

SameRepo(e, f) ==
    /\ e.repoOwner = f.repoOwner
    /\ e.repoName = f.repoName
    /\ e.branch = f.branch

\* variant: no duplicate is detected
isDuplicate_Never(customEngines, engine) == FALSE

\* metadata.customEngines.some(e => same repoOwner, repoName and branch)
isDuplicate(customEngines, engine) ==
    \E i \in 1..Len(customEngines) : SameRepo(customEngines[i], engine)

\* addCustomEngine; newId is `custom-${Date.now()}-${random}`
addCustomEngine(stored, expanded, engine, newId, saveOk) ==
    LET metadata == loadEngineMetadata(stored)
        newEngine == Engine(newId, engine.repoOwner, engine.repoName, engine.branch) IN
    IF isDuplicate(metadata.customEngines, newEngine)
    THEN Outcome(stored, expanded,
                 <<"An engine with this repository and branch already exists">>,
                 NoEngine)
    ELSE LET saved == saveEngineMetadata(stored, expanded,
                         Metadata(metadata.activeEngineId,
                                  Append(metadata.customEngines, newEngine)),
                         saveOk) IN
         IF saved.thrown = <<>> THEN [saved EXCEPT !.engine = newEngine] ELSE saved

\* cleanupStaleExpandedCategories(validEngineIds): removes the
\* expanded-categories items of the engines that are no longer registered
cleanupStaleExpandedCategories(expanded, validEngineIds) ==
    expanded \cap validEngineIds

\* variant: the test is inverted
ActiveAfterRemove_Inverted(activeEngineId, engineId) ==
    IF activeEngineId # engineId THEN getDefaultEngine.id ELSE activeEngineId

\* variant: the active id is left as it is
ActiveAfterRemove_Kept(activeEngineId, engineId) == activeEngineId

\* if (metadata.activeEngineId === engineId) metadata.activeEngineId = default
ActiveAfterRemove(activeEngineId, engineId) ==
    IF activeEngineId = engineId THEN getDefaultEngine.id ELSE activeEngineId

\* variant: default engines are removable
isDefaultEngine_Never(engineId) == FALSE

\* DEFAULT_ENGINES.some(e => e.id === engineId)
isDefaultEngine(engineId) == engineId \in Ids(DEFAULT_ENGINES)

Without(customEngines, engineId) ==
    SelectSeq(customEngines, LAMBDA e : e.id # engineId)

\* variant: the expanded-categories items are cleaned before the save
removeCustomEngine_CleanupFirst(stored, expanded, engineId, saveOk) ==
    LET metadata == loadEngineMetadata(stored)
        customEngines == Without(metadata.customEngines, engineId) IN
    IF isDefaultEngine(engineId)
    THEN Outcome(stored, expanded, <<"Cannot remove default engines">>, NoEngine)
    ELSE saveEngineMetadata(stored,
            cleanupStaleExpandedCategories(expanded, Ids(getAllEngines(customEngines))),
            Metadata(ActiveAfterRemove(metadata.activeEngineId, engineId), customEngines),
            saveOk)

removeCustomEngine(stored, expanded, engineId, saveOk) ==
    LET metadata == loadEngineMetadata(stored)
        customEngines == Without(metadata.customEngines, engineId) IN
    IF isDefaultEngine(engineId)
    THEN Outcome(stored, expanded, <<"Cannot remove default engines">>, NoEngine)
    ELSE LET saved == saveEngineMetadata(stored, expanded,
                         Metadata(ActiveAfterRemove(metadata.activeEngineId, engineId),
                                  customEngines),
                         saveOk) IN
         IF saved.thrown = <<>>
         THEN [saved EXCEPT !.expanded = cleanupStaleExpandedCategories(
                                            expanded, Ids(getAllEngines(customEngines)))]
         ELSE saved

\* ---------------------------------------------------------------- EngineProvider
\* what an operation of the provider reports: the error thrown, the engine returned
Result(thrown, engine) == [thrown |-> thrown, engine |-> engine]

\* the engine object handed to setActiveEngine differs from the current one
\* unless both are the same entry of DEFAULT_ENGINES (custom engines are
\* parsed afresh from localStorage on every load)
EngineObjectChanged(engineId) ==
    \/ engineId # activeEngine
    \/ \A i \in 1..Len(DEFAULT_ENGINES) : DEFAULT_ENGINES[i].id # engineId

\* switchEngine has no await: it runs to its end in one step, and isLoading
\* is false again when it returns or throws.
switchEngine(engineId, saveOk) ==
    LET out == setActiveEngine(storedMetadata, expandedKeys, engineId, saveOk) IN
    IF out.thrown = <<>>
    THEN /\ storedMetadata' = out.stored
         /\ activeEngine' = engineId
         /\ effectPending' = (effectPending \/ EngineObjectChanged(engineId))
         \* clearEngineCache(activeEngine.id): the engine active before the switch
         /\ engineCache' = ClearedCache(activeEngine)
         /\ outstandingAtSwitch' = outstandingAtSwitch \cup
               {p \in 1..Len(promises) : /\ promises[p].state = "pending"
                                        /\ promises[p].engine = activeEngine
                                        /\ engineId # activeEngine}
         /\ lastOp' = Op("switchEngine", engineId, 0)
         /\ UNCHANGED <<inflightRequests, promises, calls, fetchCount>>
         /\ UNCHANGED <<registryVars, galleryVars>>
    ELSE /\ lastOp' = Op("switchEngineFailed", engineId, 0)
         /\ UNCHANGED <<engineCache, inflightRequests, promises, calls, fetchCount,
                        activeEngine, storedMetadata, effectPending,
                        outstandingAtSwitch>>
         /\ UNCHANGED <<registryVars, galleryVars>>

\* refreshEngines: setActiveEngine(getActiveEngine()), setAllEngines(...)
Refreshed(stored) ==
    /\ activeEngine' = getActiveEngine(stored).id
    /\ allEngines' = IdList(getAllEngines(loadEngineMetadata(stored).customEngines))
    /\ effectPending' = (effectPending \/ EngineObjectChanged(getActiveEngine(stored).id))

refreshEngines ==
    /\ Refreshed(storedMetadata)
    /\ result' = Result(<<>>, getActiveEngine(storedMetadata))
    /\ lastOp' = Op("refreshEngines", "", 0)
    /\ UNCHANGED <<engineCache, inflightRequests, promises, calls, fetchCount,
                   storedMetadata, outstandingAtSwitch, expandedKeys, lastEngine,
                   galleryVars>>

\* addEngine, from the call of addCustomEngine on (the avatar has been awaited)
AddEngineFrom(engine, newId, saveOk) ==
    LET out == addCustomEngine(storedMetadata, expandedKeys, engine, newId, saveOk) IN
    /\ storedMetadata' = out.stored
    /\ result' = Result(out.thrown, out.engine)
    /\ IF out.thrown = <<>>
       THEN Refreshed(out.stored)
       ELSE UNCHANGED <<activeEngine, allEngines, effectPending>>
    /\ lastEngine' = engine
    /\ UNCHANGED <<engineCache, inflightRequests, promises, calls, fetchCount,
                   outstandingAtSwitch, expandedKeys, galleryVars>>

addEngine(engine, newId, saveOk) ==
    /\ AddEngineFrom(engine, newId, saveOk)
    /\ lastOp' = Op("addEngine", newId, 0)

\* variant: the form submits whatever it holds
canSave_Always(engine, shaError) == TRUE

\* AddEngineForm: canSave = repoOwner && repoName && branch && !shaError
canSave(engine, shaError) ==
    /\ engine.repoOwner # ""
    /\ engine.repoName # ""
    /\ engine.branch # ""
    /\ ~shaError

\* AddEngineForm.handleSubmit, from its call of addEngine on: it returns
\* at once when canSave is false, and shows the error addEngine throws
handleSubmit(engine, shaError, newId, saveOk) ==
    IF canSave(engine, shaError)
    THEN /\ AddEngineFrom(engine, newId, saveOk)
         /\ lastOp' = Op("handleSubmit", newId, 0)
    ELSE /\ lastEngine' = engine
         /\ result' = Result(<<>>, NoEngine)
         /\ lastOp' = Op("handleSubmit", newId, 0)
         /\ UNCHANGED <<engineCache, inflightRequests, promises, calls, fetchCount,
                        activeEngine, storedMetadata, effectPending,
                        outstandingAtSwitch, expandedKeys, allEngines, galleryVars>>

\* removeEngine: the storage call, clearEngineCache(engineId), refreshEngines()
removeEngine(engineId, saveOk) ==
    LET out == removeCustomEngine(storedMetadata, expandedKeys, engineId, saveOk) IN
    /\ storedMetadata' = out.stored
    /\ expandedKeys' = out.expanded
    /\ result' = Result(out.thrown, NoEngine)
    /\ IF out.thrown = <<>>
       THEN /\ engineCache' = ClearedCache(engineId)
            /\ Refreshed(out.stored)
       ELSE UNCHANGED <<engineCache, activeEngine, allEngines, effectPending>>
    /\ lastEngine' = getActiveEngine(storedMetadata)
    /\ lastOp' = Op("removeEngine", engineId, 0)
    /\ UNCHANGED <<inflightRequests, promises, calls, fetchCount,
                   outstandingAtSwitch, galleryVars>>

\* ---------------------------------------------------------------- App
\* The data-load effect of App, up to its await: loadData() starts
\* getAllImages and getCategories for the active engine inside one
\* Promise.all, and each of them calls fetchRepoTree before its first await.
\* (getCategoryTree, the third member, is not part of lib/github-api.ts.)
\* the run of loadData up to its await: setLoading(true) and the calls
loadDataRun ==
    LET st == fetchRepoTree(fetchRepoTree(CurrentState, activeEngine), activeEngine) IN
    /\ effectPending
    /\ Adopt(st)
    /\ effectPending' = FALSE
    /\ loading' = TRUE
    /\ lastOp' = Op("loadData", activeEngine, 0)
    /\ UNCHANGED <<engineCache, activeEngine, storedMetadata, outstandingAtSwitch>>
    /\ UNCHANGED <<registryVars, appVars, hookVars, pureVars, shownData, loadsDone>>

loadData ==
    LET st == fetchRepoTree(fetchRepoTree(CurrentState, activeEngine), activeEngine) IN
    /\ Len(st.calls) <= MaxCalls
    /\ Len(st.promises) <= MaxFetches
    /\ loadDataRun

\* ---------------------------------------------------------------- Init / Next
\* what a render captures of the hook's state for fetchMore
Closure(p, h) == [page |-> p, hasMore |-> h]

\* no call of a pure function, and no return from one
NotCalled == [op |-> "none"]

NotReturned == [op |-> "pending"]

\* the state after the first render and its effects; useInfiniteScroll's
\* first render saw hasMore true and its effect found no images
InitState ==
    /\ engineCache = {}
    /\ inflightRequests = {}
    /\ promises = <<>>
    /\ calls = <<>>
    /\ fetchCount = [id \in EngineIds |-> 0]
    /\ storedMetadata \in {Json(id, CustomEngines) : id \in EngineIds}
    /\ activeEngine = getActiveEngine(storedMetadata).id
    /\ effectPending = TRUE
    /\ outstandingAtSwitch = {}
    /\ lastOp = Op("init", "", 0)
    /\ expandedKeys = {}
    /\ allEngines = IdList(getAllEngines(loadEngineMetadata(storedMetadata).customEngines))
    /\ result = Result(<<>>, NoEngine)
    /\ lastEngine = NoEngine
    /\ allImages = <<>>
    /\ categories = {}
    /\ categoryTree = {}
    /\ selectedCategory = <<>>
    /\ searchQuery = ""
    /\ sortOption = "default"
    /\ displayedImages = <<>>
    /\ page = 0
    /\ hasMore = FALSE
    /\ closure = Closure(0, TRUE)
    /\ filtered = <<>>
    /\ loading = TRUE
    /\ shownData = NoValue
    /\ loadsDone = {}

Init ==
    /\ InitState
    /\ args = NotCalled
    /\ returned = NotReturned

Next ==
    \/ \E id \in EngineIds : GetSnapshot(id)
    \/ \E p \in 1..MaxFetches : FetchRejected(p)
    \/ \E p \in 1..MaxFetches, a \in CacheAnswers : Response(p, a[1], a[2])
    \/ \E p \in 1..MaxFetches : JsonRejected(p)
    \/ \E p \in 1..MaxFetches : JsonResolved(p)
    \/ \E id \in EngineIds : clearEngineCache(id)
    \/ clearAllCaches
    \/ \E id \in SwitchTargets, saveOk \in BOOLEAN : switchEngine(id, saveOk)
    \/ loadData

Spec == Init /\ [][Next]_vars

\* The fetcher alone, against a remote that may answer with every status and
\* every reason phrase.
NextStatus ==
    \/ \E id \in EngineIds : GetSnapshot(id)
    \/ \E p \in 1..MaxFetches : FetchRejected(p)
    \/ \E p \in 1..MaxFetches, status \in Statuses : \E statusText \in StatusTexts(status) :
          Response(p, status, statusText)
    \/ \E p \in 1..MaxFetches : JsonRejected(p)
    \/ \E p \in 1..MaxFetches : JsonResolved(p)

SpecStatus == Init /\ [][NextStatus]_vars

\* ---------------------------------------------------------------- the registry
\* What localStorage may hold when the page loads: nothing, an unparsable
\* string, or metadata written by this or an earlier version of the program,
\* whose active id may name an engine that is no longer there.
StoredActiveIds == EngineIds \cup {"stale", ""}

StoredContents ==
    {Absent, Unparsable}
    \cup {Json(id, custom) : id \in StoredActiveIds, custom \in {<<>>, CustomEngines}}
    \cup {JsonNoList(id) : id \in StoredActiveIds}
    \cup {JsonNullList(id) : id \in StoredActiveIds}

\* the engines a caller may hand to addEngine: the repository of a default
\* engine, that of the stored custom engine, and a new one
Candidates ==
    {Engine("", "dharmx", "walls", "main"), Engine("", "o2", "r2", "main"),
     Engine("", "o3", "r3", "main")}

\* what the form's fields may hold on submit: the above, and engines with an
\* empty owner, name or branch
FormCandidates ==
    Candidates \cup {Engine("", "", "r3", "main"), Engine("", "o3", "", "main"),
                     Engine("", "o3", "r3", "")}

\* the ids addCustomEngine may generate (`custom-${Date.now()}`), in the order
\* in which it generates them
NewIds == {"c1", "c2"}

\* the id the next addCustomEngine generates: one that no engine carries
FreshIds(stored) ==
    LET taken == Ids(getAllEngines(loadEngineMetadata(stored).customEngines))
    IN  IF "c1" \notin taken THEN {"c1"}
        ELSE IF "c2" \notin taken THEN {"c2"} ELSE {}

RemoveTargets == EngineIds \cup NewIds \cup {"unknown"}

\* useExpandedCategories(activeEngine.id): its effect writes the item of the
\* active engine; a failing write is caught and ignored
persistExpanded(saveOk) ==
    /\ expandedKeys' = IF saveOk THEN expandedKeys \cup {activeEngine} ELSE expandedKeys
    /\ lastOp' = Op("persistExpanded", activeEngine, 0)
    /\ UNCHANGED <<engineCache, inflightRequests, promises, calls, fetchCount,
                   activeEngine, storedMetadata, effectPending, outstandingAtSwitch,
                   allEngines, result, lastEngine, galleryVars>>

InitRegistry ==
    /\ engineCache = {}
    /\ inflightRequests = {}
    /\ promises = <<>>
    /\ calls = <<>>
    /\ fetchCount = [id \in EngineIds |-> 0]
    /\ storedMetadata \in StoredContents
    /\ activeEngine = getActiveEngine(storedMetadata).id
    /\ effectPending = TRUE
    /\ outstandingAtSwitch = {}
    /\ lastOp = Op("init", "", 0)
    /\ expandedKeys = {}
    /\ allEngines = IdList(getAllEngines(loadEngineMetadata(storedMetadata).customEngines))
    /\ result = Result(<<>>, getActiveEngine(storedMetadata))
    /\ lastEngine = NoEngine
    /\ allImages = <<>>
    /\ categories = {}
    /\ categoryTree = {}
    /\ selectedCategory = <<>>
    /\ searchQuery = ""
    /\ sortOption = "default"
    /\ displayedImages = <<>>
    /\ page = 0
    /\ hasMore = FALSE
    /\ closure = Closure(0, TRUE)
    /\ filtered = <<>>
    /\ loading = TRUE
    /\ shownData = NoValue
    /\ loadsDone = {}
    /\ args = NotCalled
    /\ returned = NotReturned

CustomCount == Len(loadEngineMetadata(storedMetadata).customEngines)

NextRegistry ==
    \/ \E engine \in Candidates, saveOk \in BOOLEAN :
          \E newId \in FreshIds(storedMetadata) :
             CustomCount < MaxCustom /\ addEngine(engine, newId, saveOk)
    \/ \E engine \in Candidates, shaError, saveOk \in BOOLEAN :
          \E newId \in FreshIds(storedMetadata) :
             CustomCount < MaxCustom /\ handleSubmit(engine, shaError, newId, saveOk)
    \/ \E id \in RemoveTargets, saveOk \in BOOLEAN : removeEngine(id, saveOk)
    \/ \E id \in RemoveTargets, saveOk \in BOOLEAN : switchEngine(id, saveOk)
    \/ refreshEngines
    \/ \E saveOk \in BOOLEAN : persistExpanded(saveOk)

SpecRegistry == InitRegistry /\ [][NextRegistry]_vars

\* The add-source form and the provider's addEngine over every field content.
NextForm ==
    \/ \E engine \in FormCandidates, saveOk \in BOOLEAN :
          \E newId \in FreshIds(storedMetadata) :
             CustomCount < MaxCustom /\ addEngine(engine, newId, saveOk)
    \/ \E engine \in FormCandidates, shaError, saveOk \in BOOLEAN :
          \E newId \in FreshIds(storedMetadata) :
             CustomCount < MaxCustom /\ handleSubmit(engine, shaError, newId, saveOk)
    \/ \E id \in NewIds, saveOk \in BOOLEAN : removeEngine(id, saveOk)

SpecForm == InitRegistry /\ [][NextForm]_vars

\* Removing engines while their trees are fetched and cached.
NextRemove ==
    \/ \E id \in EngineIds : GetSnapshot(id)
    \/ \E p \in 1..MaxFetches, a \in CacheAnswers : Response(p, a[1], a[2])
    \/ \E p \in 1..MaxFetches : JsonResolved(p)
    \/ \E id \in RemoveTargets, saveOk \in BOOLEAN : removeEngine(id, saveOk)
    \/ \E saveOk \in BOOLEAN : persistExpanded(saveOk)

SpecRemove == Init /\ [][NextRemove]_vars

\* The registry operations, succeeding and failing, around one fetch of a
\* tree: the fetch fills the cache that removeEngine and switchEngine clear.
AtomicCandidates == {Engine("", "o2", "r2", "main"), Engine("", "o3", "r3", "main")}

NextAtomic ==
    \/ \E id \in EngineIds : promises = <<>> /\ GetSnapshot(id)
    \/ \E a \in CacheAnswers : Response(1, a[1], a[2])
    \/ JsonResolved(1)
    \/ \E engine \in AtomicCandidates, saveOk \in BOOLEAN :
          \E newId \in FreshIds(storedMetadata) \cap {"c1"} :
             CustomCount < MaxCustom /\ addEngine(engine, newId, saveOk)
    \/ \E id \in EngineIds, saveOk \in BOOLEAN : removeEngine(id, saveOk)
    \/ \E id \in SwitchTargets, saveOk \in BOOLEAN : switchEngine(id, saveOk)
    \/ \E saveOk \in BOOLEAN : persistExpanded(saveOk)

SpecAtomic == Init /\ [][NextAtomic]_vars

\* ---------------------------------------------------------------- gallery
\* A path is a string: a sequence of tokens, each a name or the separator.
Separator == "/"

\* GitHubTreeItem: its path, its type ('blob' or 'tree') and its optional size
TreeItem(path, type, size) == [path |-> path, type |-> type, size |-> size]

\* the size of an item without the optional size (sizes are not negative)
NoSize == -1

\* the items a repository tree may list, in the order of the listing
TreeItems ==
    <<TreeItem(<<"X.PNG">>, "blob", 0),
      TreeItem(<<"a">>, "tree", NoSize),
      TreeItem(<<"a", Separator, "b", Separator, "v.png">>, "blob", 2),
      TreeItem(<<"a", Separator, "b", Separator, "y.png">>, "blob", 3),
      TreeItem(<<"a", Separator, "n.md">>, "blob", 1),
      TreeItem(<<"a", Separator, "x.png">>, "blob", 2),
      TreeItem(<<"docs", Separator, "d.png">>, "blob", 1),
      TreeItem(<<"uncategorized", Separator, "sub", Separator, "x.png">>, "blob", NoSize),
      TreeItem(<<"uncategorized", Separator, "y.png">>, "blob", 1),
      TreeItem(<<"z.png">>, "blob", NoSize)>>

\* a selection of the items, in the reverse of the order of the listing
RECURSIVE Selection(_, _)
Selection(items, chosen) ==
    IF items = <<>> THEN <<>>
    ELSE (IF Len(items) \in chosen THEN <<items[Len(items)]>> ELSE <<>>)
         \o Selection(SubSeq(items, 1, Len(items) - 1), chosen)

RECURSIVE Reverse(_)
Reverse(s) == IF s = <<>> THEN <<>> ELSE Reverse(Tail(s)) \o <<Head(s)>>

\* the listings: those of at most one item, and those that lack at most one
Trees ==
    {Reverse(Selection(TreeItems, chosen)) :
        chosen \in {c \in SUBSET (1..Len(TreeItems)) :
                       Cardinality(c) <= 1 \/ Cardinality(c) >= Len(TreeItems) - 1}}

\* the imageExtensions and excludedFolders of an engine
Source(imageExtensions, excludedFolders) ==
    [imageExtensions |-> imageExtensions, excludedFolders |-> excludedFolders]

Sources ==
    {Source({<<".png">>}, {}), Source({<<".png">>}, {<<"docs">>}),
     Source({<<".png">>, <<".md">>}, {<<"uncategorized">>})}

Uncategorized == <<"uncategorized">>

\* String.prototype.includes('/')
IncludesSeparator(path) == \E i \in 1..Len(path) : path[i] = Separator

\* String.prototype.startsWith
StartsWith(string, prefix) ==
    /\ Len(prefix) <= Len(string)
    /\ SubSeq(string, 1, Len(prefix)) = prefix

\* path.split('/')
RECURSIVE Split(_)
Split(path) ==
    IF ~IncludesSeparator(path)
    THEN <<path>>
    ELSE LET i == CHOOSE k \in 1..Len(path) :
                     /\ path[k] = Separator
                     /\ \A j \in 1..(k - 1) : path[j] # Separator IN
         <<SubSeq(path, 1, i - 1)>> \o Split(SubSeq(path, i + 1, Len(path)))

\* Array.prototype.join('/')
RECURSIVE Join(_)
Join(segments) ==
    IF Len(segments) = 0 THEN <<>>
    ELSE IF Len(segments) = 1 THEN segments[1]
    ELSE segments[1] \o <<Separator>> \o Join(Tail(segments))

\* String.prototype.toLowerCase, token by token
LowerToken(token) ==
    CASE token = "X.PNG" -> "x.png"
      [] OTHER -> token

ToLowerCase(string) == [i \in 1..Len(string) |-> LowerToken(string[i])]

\* the part of a token from its last '.', or "" when it has none
DotSuffix(token) ==
    CASE token \in {"v.png", "x.png", "y.png", "z.png", "d.png"} -> ".png"
      [] token = "n.md" -> ".md"
      [] OTHER -> ""

\* path.lastIndexOf('.'): the last token with a '.', 0 for none
LastDot(path) ==
    IF \A i \in 1..Len(path) : DotSuffix(path[i]) = "" THEN 0
    ELSE CHOOSE i \in 1..Len(path) :
            /\ DotSuffix(path[i]) # ""
            /\ \A j \in (i + 1)..Len(path) : DotSuffix(path[j]) = ""

\* isImageFile: the lower-cased path from its last '.' is an extension of the
\* list; substring(-1) is the whole string
isImageFile(path, extensions) ==
    LET lower == ToLowerCase(path)
        i == LastDot(lower)
        ext == IF i = 0 THEN lower
               ELSE <<DotSuffix(lower[i])>> \o SubSeq(lower, i + 1, Len(lower)) IN
    ext \in extensions

\* the category getAllImages and getCategories give to a path
CategoryOf(path) ==
    LET parts == Split(path) IN
    IF Len(parts) >= 2 THEN parts[1] ELSE Uncategorized

\* the items getAllImages and getCategories keep
Accepted(engine, item) ==
    /\ item.type = "blob"
    /\ isImageFile(item.path, engine.imageExtensions)
    /\ CategoryOf(item.path) \notin engine.excludedFolders

\* the WallpaperImage getAllImages derives from a tree item (its path, its
\* category, its name, its size and its pathSegments, the path hierarchy)
Image(item) ==
    LET parts == Split(item.path) IN
    [path |-> item.path,
     category |-> CategoryOf(item.path),
     name |-> parts[Len(parts)],
     size |-> item.size,
     pathSegments |-> parts]

\* Array.prototype.map
Map(f(_), array) == [i \in 1..Len(array) |-> f(array[i])]

getAllImages(engine, tree) ==
    LET Keep(item) == Accepted(engine, item) IN
    Map(Image, SelectSeq(tree, Keep))

\* the elements of an array
Elements(array) == {array[i] : i \in 1..Len(array)}

\* a getCategories that counts the images of excluded folders too
getCategories_AnyFolder(engine, tree) ==
    LET Keep(item) == item.type = "blob" /\ isImageFile(item.path, engine.imageExtensions)
        kept == SelectSeq(tree, Keep) IN
    {[name |-> name,
      count |-> Cardinality({i \in 1..Len(kept) : CategoryOf(kept[i].path) = name})] :
        name \in {CategoryOf(item.path) : item \in Elements(kept)}}

\* getCategories: the categories of the kept items, each with the number of
\* its items (a Map from name to count, as a set of Category records)
getCategories(engine, tree) ==
    LET Keep(item) == Accepted(engine, item)
        kept == SelectSeq(tree, Keep) IN
    {[name |-> name,
      count |-> Cardinality({i \in 1..Len(kept) : CategoryOf(kept[i].path) = name})] :
        name \in {CategoryOf(item.path) : item \in Elements(kept)}}

\* The category path of an image file: the sentinel for a file at the root,
\* else its folders.
CategoryPath(path) ==
    LET parts == Split(path) IN
    IF Len(parts) = 1 THEN <<Uncategorized>> ELSE SubSeq(parts, 1, Len(parts) - 1)

\* the sum of the counts of nodes
RECURSIVE SumCounts(_)
SumCounts(nodes) ==
    IF nodes = {} THEN 0
    ELSE LET n == CHOOSE m \in nodes : TRUE IN n.count + SumCounts(nodes \ {n})

\* a CategoryNode whose count leaves out its children
RECURSIVE Node_DirectOnly(_, _)
Node_DirectOnly(repo, folders) ==
    LET below == {CategoryPath(path) : path \in
                     {q \in repo : /\ Len(CategoryPath(q)) > Len(folders)
                                   /\ SubSeq(CategoryPath(q), 1, Len(folders)) = folders}}
        children == {Node_DirectOnly(repo, Append(folders, c[Len(folders) + 1])) : c \in below}
        directCount == Cardinality({q \in repo : CategoryPath(q) = folders}) IN
    [fullPath |-> Join(folders),
     directCount |-> directCount,
     count |-> directCount,
     children |-> children]

\* the CategoryNode of a folder path (its fullPath, counts and children),
\* with a child for every folder below it that leads to an image; count is
\* computed bottom-up from directCount and the children's counts
RECURSIVE Node(_, _)
Node(repo, folders) ==
    LET below == {CategoryPath(path) : path \in
                     {q \in repo : /\ Len(CategoryPath(q)) > Len(folders)
                                   /\ SubSeq(CategoryPath(q), 1, Len(folders)) = folders}}
        children == {Node(repo, Append(folders, c[Len(folders) + 1])) : c \in below}
        directCount == Cardinality({q \in repo : CategoryPath(q) = folders}) IN
    [fullPath |-> Join(folders),
     directCount |-> directCount,
     count |-> directCount + SumCounts(children),
     children |-> children]

\* getCategoryTree: the root nodes of the category tree of the kept items
getCategoryTree(engine, tree) ==
    LET repo == {item.path : item \in {i \in Elements(tree) : Accepted(engine, i)}} IN
    {Node(repo, <<CategoryPath(path)[1]>>) : path \in repo}

NoNode == [fullPath |-> <<>>, directCount |-> 0, count |-> 0, children |-> {}]

\* getTotalCount: the images of a category and of all below it
getTotalCount(node) == node.count

\* Sidebar's totalCount: of the tree, or of the categories when there is none
totalCount(tree, cats) ==
    IF tree # {} THEN SumCounts(tree) ELSE SumCounts(cats)

\* every node of the trees whose fullPath is the path
RECURSIVE NodesAt(_, _)
NodesAt(nodes, path) ==
    {n \in nodes : n.fullPath = path}
    \cup UNION {NodesAt(n.children, path) : n \in nodes}

\* findNode: the node with the fullPath, or null
findNode(nodes, path) ==
    IF NodesAt(nodes, path) = {} THEN NoNode ELSE CHOOSE n \in NodesAt(nodes, path) : TRUE

RECURSIVE flattenCategoryPaths(_)
flattenCategoryPaths(node) ==
    {node.fullPath} \cup UNION {flattenCategoryPaths(child) : child \in node.children}

isImageInCategory(imagePath, categoryPath, tree) ==
    LET node == findNode(tree, categoryPath) IN
    IF node = NoNode
    THEN FALSE
    ELSE \E path \in flattenCategoryPaths(node) :
            IF path = Uncategorized
            THEN ~IncludesSeparator(imagePath)
            ELSE StartsWith(imagePath, path \o <<Separator>>) \/ imagePath = path

\* the filter by category of App's filteredImages; <<>> is no selected
\* category
filterByCategory(images, category, tree) ==
    IF category = <<>>
    THEN images
    ELSE LET selectedNode == findNode(tree, category)
             InNode(img) ==
                 IF category = Uncategorized
                 THEN Len(img.pathSegments) = 1
                 ELSE LET imgPath == Join(SubSeq(img.pathSegments, 1,
                                                 Len(img.pathSegments) - 1)) IN
                      \E path \in flattenCategoryPaths(selectedNode) :
                         imgPath = path \/ StartsWith(imgPath, path \o <<Separator>>)
             InFlat(img) == img.category = category IN
         IF selectedNode # NoNode
         THEN SelectSeq(images, InNode)
         ELSE SelectSeq(images, InFlat)

\* the search queries: a query is one token; " " is blank
Queries == {"", " ", "X.PNG", "sub", "png"}

\* String.prototype.trim
Trim(query) == IF query = " " THEN "" ELSE query

\* a token holds a query: it is the query, or it ends in .png and the query
\* is png
TokenIncludes(token, query) ==
    token = query \/ (query = "png" /\ DotSuffix(token) = ".png")

\* String.prototype.includes for a one-token query
StringIncludes(string, query) == \E i \in 1..Len(string) : TokenIncludes(string[i], query)

\* the filter by search query of App's filteredImages
filterByQuery(images, search) ==
    IF Trim(search) = ""
    THEN images
    ELSE LET query == LowerToken(search)
             Matches(img) ==
                 \/ StringIncludes(ToLowerCase(img.name), query)
                 \/ StringIncludes(ToLowerCase(img.category), query)
                 \/ StringIncludes(ToLowerCase(img.path), query) IN
         SelectSeq(images, Matches)

SortOptions == {"default", "name-asc", "name-desc", "size-asc", "size-desc"}

\* the collation order of the file names
LocaleRank(name) ==
    CASE name = <<"d.png">> -> 1
      [] name = <<"n.md">>  -> 2
      [] name = <<"v.png">> -> 3
      [] name = <<"x.png">> -> 4
      [] name = <<"X.PNG">> -> 5
      [] name = <<"y.png">> -> 6
      [] name = <<"z.png">> -> 7

\* String.prototype.localeCompare, up to the magnitude of the result
localeCompare(a, b) == LocaleRank(a) - LocaleRank(b)

\* size || 0
SizeOrZero(size) == IF size = NoSize THEN 0 ELSE size

\* the comparator of a sort option
Compare(option, a, b) ==
    CASE option = "name-asc"  -> localeCompare(a.name, b.name)
      [] option = "name-desc" -> localeCompare(b.name, a.name)
      [] option = "size-asc"  -> SizeOrZero(a.size) - SizeOrZero(b.size)
      [] option = "size-desc" -> SizeOrZero(b.size) - SizeOrZero(a.size)

\* a sort that puts an element in front of those that compare equal
InsertAt_BeforeEqual(option, array, x) ==
    Cardinality({i \in 1..Len(array) : Compare(option, array[i], x) < 0})

\* where a stable sort puts an element into a sorted array: behind every
\* element that does not compare greater
InsertAt(option, array, x) ==
    Cardinality({i \in 1..Len(array) : Compare(option, array[i], x) <= 0})

\* Array.prototype.sort with a comparator: the array after the sort, which
\* is stable
RECURSIVE ArraySort(_, _)
ArraySort(option, array) ==
    IF array = <<>> THEN <<>>
    ELSE LET front == ArraySort(option, SubSeq(array, 1, Len(array) - 1))
             x == array[Len(array)]
             k == InsertAt(option, front, x) IN
         SubSeq(front, 1, k) \o <<x>> \o SubSeq(front, k + 1, Len(front))

\* the sorting of App's filteredImages: what it returns, and the array it
\* was given as that array is afterwards; it sorts a copy
sortImages(images, option) ==
    IF option # "default"
    THEN LET copy == images IN
         [input |-> images, sorted |-> ArraySort(option, copy)]
    ELSE [input |-> images, sorted |-> images]

\* App's filteredImages
filteredImages(images, category, search, option, tree) ==
    sortImages(filterByQuery(filterByCategory(images, category, tree), search),
               option).sorted

\* Array.prototype.slice(start, end)
Slice(array, start, end) ==
    LET len == Len(array)
        Clamp(k) == IF k < 0 THEN (IF len + k < 0 THEN 0 ELSE len + k)
                    ELSE (IF k > len THEN len ELSE k)
        from == Clamp(start)
        to == Clamp(end) IN
    IF to <= from THEN <<>> ELSE SubSeq(array, from + 1, to)

paginateImages_OneBased(images, pageIndex, pageSize) ==
    LET start == (pageIndex - 1) * pageSize
        end == start + pageSize IN
    Slice(images, start, end)

paginateImages(images, pageIndex, pageSize) ==
    LET start == pageIndex * pageSize
        end == start + pageSize IN
    Slice(images, start, end)

\* ---------------------------------------------------------------- useInfiniteScroll
\* the effect that resets the hook when its allImages changed; the render
\* that precedes it captured the state the effect replaces
ResetHook(images) ==
    /\ page' = 0
    /\ displayedImages' = Slice(images, 0, PageSize)
    /\ hasMore' = (PageSize < Len(images))
    /\ closure' = Closure(page, hasMore)
    /\ filtered' = images

\* a render that leaves the hook's allImages as it is
KeepHook ==
    /\ closure' = Closure(page, hasMore)
    /\ UNCHANGED <<displayedImages, page, hasMore, filtered>>

\* a loadMore that expects more when the page ends with the list
loadMore_OffByOne(images, currentPage, prev, prevHasMore) ==
    LET start == currentPage * PageSize
        end == start + PageSize
        newImages == Slice(images, start, end) IN
    IF Len(newImages) = 0
    THEN [displayedImages |-> prev, hasMore |-> FALSE]
    ELSE [displayedImages |-> IF currentPage = 0 THEN newImages ELSE prev \o newImages,
          hasMore |-> end <= Len(images)]

\* loadMore: the displayedImages and hasMore it leaves
loadMore(images, currentPage, prev, prevHasMore) ==
    LET start == currentPage * PageSize
        end == start + PageSize
        newImages == Slice(images, start, end) IN
    IF Len(newImages) = 0
    THEN [displayedImages |-> prev, hasMore |-> FALSE]
    ELSE [displayedImages |-> IF currentPage = 0 THEN newImages ELSE prev \o newImages,
          hasMore |-> end < Len(images)]

\* fetchMore, with the page and hasMore its render captured
fetchMore ==
    /\ IF closure.hasMore
       THEN LET nextPage == closure.page + 1
                loaded == loadMore(filtered, nextPage, displayedImages, hasMore) IN
            /\ page' = nextPage
            /\ displayedImages' = loaded.displayedImages
            /\ hasMore' = loaded.hasMore
       ELSE UNCHANGED <<displayedImages, page, hasMore>>
    /\ lastOp' = Op("fetchMore", "", 0)
    /\ UNCHANGED <<engineCache, inflightRequests, promises, calls, fetchCount,
                   activeEngine, storedMetadata, effectPending, outstandingAtSwitch,
                   registryVars, appVars, closure, filtered, pureVars, loadVars>>

\* the render that follows a change of the hook's state
Rerender ==
    /\ closure # Closure(page, hasMore)
    /\ closure' = Closure(page, hasMore)
    /\ lastOp' = Op("render", "", 0)
    /\ UNCHANGED <<engineCache, inflightRequests, promises, calls, fetchCount,
                   activeEngine, storedMetadata, effectPending, outstandingAtSwitch,
                   registryVars, appVars, displayedImages, page, hasMore, filtered, pureVars, loadVars>>

\* the hook has rendered with its current state
Settled == closure = Closure(page, hasMore)

\* InfiniteScrollTrigger's effect calls onIntersect (fetchMore) after a
\* render; it calls when the trigger is in view and hasMore, a test that
\* fetchMore repeats on the hasMore of the same render, so that the call
\* without it is modelled too
onIntersect == Settled /\ fetchMore

\* ---------------------------------------------------------------- App
\* filteredImages returns App's allImages itself when it neither filters nor
\* sorts
PassThrough(category, query, option) ==
    category = <<>> /\ Trim(query) = "" /\ option = "default"

\* a render that never resets the hook
Render_KeepPages(images, category, query, option, tree, sameArray) ==
    KeepHook

\* the render after a change of App's state: the hook is reset when
\* filteredImages returned another array
Render(images, category, query, option, tree, sameArray) ==
    IF sameArray
    THEN KeepHook
    ELSE ResetHook(filteredImages(images, category, query, option, tree))

\* the categories the sidebar offers: every node of the tree, or the flat
\* categories when there is no tree, and none
AllPaths(nodes) == UNION {flattenCategoryPaths(n) : n \in nodes}

Selectable ==
    {<<>>} \cup (IF categoryTree # {} THEN AllPaths(categoryTree)
                 ELSE {category.name : category \in categories})

setSelectedCategory(category) ==
    /\ category # selectedCategory
    /\ selectedCategory' = category
    /\ Render(allImages, category, searchQuery, sortOption, categoryTree, FALSE)
    /\ lastOp' = Op("setSelectedCategory", "", 0)
    /\ UNCHANGED <<engineCache, inflightRequests, promises, calls, fetchCount,
                   activeEngine, storedMetadata, effectPending, outstandingAtSwitch,
                   registryVars, allImages, categories, categoryTree, searchQuery,
                   sortOption, pureVars, loadVars>>

setSearchQuery(query) ==
    /\ query # searchQuery
    /\ searchQuery' = query
    /\ Render(allImages, selectedCategory, query, sortOption, categoryTree,
              /\ PassThrough(selectedCategory, searchQuery, sortOption)
              /\ PassThrough(selectedCategory, query, sortOption))
    /\ lastOp' = Op("setSearchQuery", "", 0)
    /\ UNCHANGED <<engineCache, inflightRequests, promises, calls, fetchCount,
                   activeEngine, storedMetadata, effectPending, outstandingAtSwitch,
                   registryVars, allImages, categories, categoryTree, selectedCategory,
                   sortOption, pureVars, loadVars>>

setSortOption(option) ==
    /\ option # sortOption
    /\ sortOption' = option
    /\ Render(allImages, selectedCategory, searchQuery, option, categoryTree, FALSE)
    /\ lastOp' = Op("setSortOption", "", 0)
    /\ UNCHANGED <<engineCache, inflightRequests, promises, calls, fetchCount,
                   activeEngine, storedMetadata, effectPending, outstandingAtSwitch,
                   registryVars, allImages, categories, categoryTree, selectedCategory,
                   searchQuery, pureVars, loadVars>>

\* loadData, after its await: the images, the categories and the tree of the
\* repository listing, and the render that follows
loadDataResolved(engine, tree) ==
    /\ allImages' = getAllImages(engine, tree)
    /\ categories' = getCategories(engine, tree)
    /\ categoryTree' = getCategoryTree(engine, tree)
    /\ Render(allImages', selectedCategory, searchQuery, sortOption, categoryTree', FALSE)
    /\ loading' = FALSE
    /\ lastOp' = Op("loadDataResolved", activeEngine, 0)
    /\ UNCHANGED <<engineCache, inflightRequests, promises, calls, fetchCount,
                   activeEngine, storedMetadata, effectPending, outstandingAtSwitch,
                   registryVars, selectedCategory, searchQuery, sortOption, pureVars,
                   shownData, loadsDone>>

NextGallery ==
    \/ \E category \in Selectable : setSelectedCategory(category)
    \/ \E engine \in Sources, tree \in Trees : loadDataResolved(engine, tree)

SpecGallery == Init /\ [][NextGallery]_vars

\* The gallery with its search, its sort order and its infinite scroll, over
\* the empty listing, the whole one and the one without its first item.
QueryTrees == {<<>>, TreeItems, Tail(TreeItems)}


NextQuery ==
    \/ \E category \in Selectable : setSelectedCategory(category)
    \/ \E query \in Queries : setSearchQuery(query)
    \/ \E option \in SortOptions : setSortOption(option)
    \/ \E engine \in Sources, tree \in QueryTrees : loadDataResolved(engine, tree)
    \/ onIntersect
    \/ Rerender

SpecQuery == Init /\ [][NextQuery]_vars

\* The hook under any caller of fetchMore.
NextScroll ==
    \/ \E category \in Selectable : setSelectedCategory(category)
    \/ \E engine \in Sources, tree \in QueryTrees : loadDataResolved(engine, tree)
    \/ Len(displayedImages) <= MaxDisplayed /\ fetchMore
    \/ Rerender

SpecScroll == Init /\ [][NextScroll]_vars

\* ---------------------------------------------------------------- pure functions
SortArgs(images, option) == [op |-> "sortImages", images |-> images, sortOption |-> option]

PaginateArgs(images, pageIndex, pageSize) ==
    [op |-> "paginateImages", images |-> images, pageIndex |-> pageIndex, pageSize |-> pageSize]

LoadArgs(engine, tree) == [op |-> "loadData", engine |-> engine, tree |-> tree]

\* the image lists handed to the functions: those of the listings, as listed
\* and reversed
ImageLists ==
    UNION {{getAllImages(Source({<<".png">>}, {}), tree),
            Reverse(getAllImages(Source({<<".png">>}, {}), tree))} : tree \in Trees}

PureArgs ==
    {SortArgs(images, option) : images \in ImageLists, option \in SortOptions}
    \cup {PaginateArgs(images, pageIndex, pageSize) :
            images \in ImageLists,
            pageIndex \in 0..MaxPage, pageSize \in 1..MaxPageSize}
    \cup {LoadArgs(engine, tree) : engine \in Sources, tree \in Trees}

Call_sortImages ==
    /\ args.op = "sortImages" /\ returned = NotReturned
    /\ returned' = [op |-> "sortImages"] @@ sortImages(args.images, args.sortOption)
    /\ lastOp' = Op("sortImages", "", 0)
    /\ UNCHANGED <<engineCache, inflightRequests, promises, calls, fetchCount,
                   activeEngine, storedMetadata, effectPending, outstandingAtSwitch,
                   registryVars, appVars, hookVars, args, loadVars>>

Call_paginateImages ==
    /\ args.op = "paginateImages" /\ returned = NotReturned
    /\ returned' = [op |-> "paginateImages",
                    page |-> paginateImages(args.images, args.pageIndex, args.pageSize)]
    /\ lastOp' = Op("paginateImages", "", 0)
    /\ UNCHANGED <<engineCache, inflightRequests, promises, calls, fetchCount,
                   activeEngine, storedMetadata, effectPending, outstandingAtSwitch,
                   registryVars, appVars, hookVars, args, loadVars>>

\* what loadData derives from a listing, and the total the sidebar shows
Call_loadData ==
    /\ args.op = "loadData" /\ returned = NotReturned
    /\ LET images == getAllImages(args.engine, args.tree)
           cats == getCategories(args.engine, args.tree)
           tree == getCategoryTree(args.engine, args.tree) IN
       returned' = [op |-> "loadData", images |-> images, categories |-> cats,
                    categoryTree |-> tree, totalCount |-> totalCount(tree, cats)]
    /\ lastOp' = Op("loadData", "", 0)
    /\ UNCHANGED <<engineCache, inflightRequests, promises, calls, fetchCount,
                   activeEngine, storedMetadata, effectPending, outstandingAtSwitch,
                   registryVars, appVars, hookVars, args, loadVars>>

InitPure ==
    /\ InitState
    /\ args \in PureArgs
    /\ returned = NotReturned

NextPure == Call_sortImages \/ Call_paginateImages \/ Call_loadData

SpecPure == InitPure /\ [][NextPure]_vars


\* ---------------------------------------------------------------- App load
\* The data loads of App. In the specification of the loads every call of
\* fetchRepoTree is one of loadData, which makes two: the calls 2k-1 and 2k
\* are those of the k-th loadData.
NumLoads == Len(calls) \div 2

LoadCalls(k) == {2 * k - 1, 2 * k}

LoadEngine(k) == calls[2 * k].engine

\* Promise.all has settled: a call rejected, or all are fulfilled
AllSettled(k) ==
    \/ \E c \in LoadCalls(k) : calls[c].state = "rejected"
    \/ \A c \in LoadCalls(k) : calls[c].state = "fulfilled"

\* the continuation of the k-th loadData after its await: the setters for
\* the images, categories and tree derived from the snapshot (or setError),
\* and setLoading(false) in the finally block; there is no test between the
\* await and the setters
loadDataSettled(k) ==
    /\ k \in 1..NumLoads
    /\ k \notin loadsDone
    /\ AllSettled(k)
    /\ shownData' = IF \A c \in LoadCalls(k) : calls[c].state = "fulfilled"
                    THEN calls[2 * k - 1].value
                    ELSE shownData
    /\ loading' = FALSE
    /\ loadsDone' = loadsDone \cup {k}
    /\ lastOp' = Op("loadDataSettled", LoadEngine(k), k)
    /\ UNCHANGED <<engineCache, inflightRequests, promises, calls, fetchCount,
                   activeEngine, storedMetadata, effectPending, outstandingAtSwitch,
                   registryVars, appVars, hookVars, pureVars>>

\* the continuation of an await is a microtask: it runs before the next
\* effect, network answer or user event is handled
NoContinuationDue == \A k \in 1..NumLoads : k \in loadsDone \/ ~AllSettled(k)

NextLoad ==
    \/ NoContinuationDue /\ Len(calls) < 2 * MaxLoads /\ loadDataRun
    \/ NoContinuationDue /\ \E p \in 1..MaxLoads, a \in CacheAnswers : Response(p, a[1], a[2])
    \/ NoContinuationDue /\ \E p \in 1..MaxLoads : JsonResolved(p)
    \/ NoContinuationDue /\ \E id \in SwitchTargets, saveOk \in BOOLEAN :
                                switchEngine(id, saveOk)
    \/ \E k \in 1..MaxLoads : loadDataSettled(k)

SpecLoad == Init /\ [][NextLoad]_vars

\* ---------------------------------------------------------------- properties
Cached(id) == MapHas(engineCache, id)

PendingFor(id) ==
    {p \in 1..Len(promises) : promises[p].engine = id /\ promises[p].state = "pending"}

\* the calls made by the step, and those of them made for an engine
NewCalls == (Len(calls) + 1)..Len(calls')

NewCallsFor(id) == {c \in NewCalls : calls'[c].engine = id}

CallsOf(p) == {c \in 1..Len(calls) : calls[c].promise = p}

\* the step runs clearEngineCache for the engine, or clears every cache
Evicts(id) ==
    \/ lastOp'.op = "clearEngineCache" /\ lastOp'.id = id
    \/ lastOp'.op = "clearAllCaches"
    \/ lastOp'.op = "switchEngine" /\ activeEngine = id

\* C1: calls for an engine that is neither cached nor being fetched start
\* exactly one network fetch however many of them one handler makes, and
\* no call starts a fetch for an engine while a fetch for it is pending.
C1_OneFetchForConcurrentCalls ==
    [][\A id \in EngineIds :
         /\ (NewCallsFor(id) # {} /\ ~Cached(id) /\ PendingFor(id) = {})
               => fetchCount'[id] = fetchCount[id] + 1
         /\ PendingFor(id) # {} => fetchCount'[id] = fetchCount[id]]_vars

C1_Witness ==
    \E p \in 1..Len(promises) :
        /\ promises[p].state = "pending" /\ promises[p].step = "fetch"
        /\ Cardinality(CallsOf(p)) >= 2
        /\ fetchCount[promises[p].engine] = 1

\* C2: a call made while a fetch for its engine is pending returns that
\* fetch's promise, and every call that returned a promise has the state and
\* the value of that promise: the same data when it succeeds, the same
\* error when it fails.
C2_CoalescedCallsShareOutcome ==
    [][/\ \A id \in EngineIds : \A p \in PendingFor(id) : \A c \in NewCallsFor(id) :
             calls'[c].promise = p /\ calls'[c].via = "dedup"
       /\ \A c \in 1..Len(calls') :
             calls'[c].promise # 0 =>
                /\ calls'[c].state = promises'[calls'[c].promise].state
                /\ calls'[c].value = promises'[calls'[c].promise].value
                /\ calls'[c].engine = promises'[calls'[c].promise].engine]_vars

C2_Witness ==
    \E c, d \in 1..Len(calls) :
        /\ c # d
        /\ calls[c].via = "fetch" /\ calls[d].via = "dedup"
        /\ calls[c].promise = calls[d].promise
        /\ calls[c].state = "fulfilled" /\ calls[d].state = "fulfilled"
        /\ calls[c].value = calls[d].value
        /\ calls[c].value.tag = "data"

\* C3: while an engine has a cached snapshot and no step evicts it, the
\* snapshot stays, every call for the engine returns it at once and no
\* network fetch is started for the engine.
C3_CachedMeansNoFetch ==
    [][\A id \in EngineIds :
         (Cached(id) /\ ~Evicts(id)) =>
            /\ MapHas(engineCache', id)
            /\ MapGet(engineCache', id) = MapGet(engineCache, id)
            /\ fetchCount'[id] = fetchCount[id]
            /\ \A c \in NewCallsFor(id) :
                  /\ calls'[c].state = "fulfilled"
                  /\ calls'[c].value = MapGet(engineCache, id)]_vars

C3_Witness ==
    \E c \in 1..Len(calls) :
        /\ calls[c].via = "cache"
        /\ calls[c].state = "fulfilled"
        /\ calls[c].value.tag = "data"
        /\ fetchCount[calls[c].engine] = 1

\* C4: while a fetch for an engine is pending the engine has no cache entry,
\* and a fetch that ends without a success status and a parsed body rejects:
\* it leaves the cache as it was, without an entry and without a pending
\* marker for the engine, and every call that returned its promise is
\* rejected with its error.
C4_FailedFetchCachesNothing ==
    [][\A p \in 1..Len(promises) :
         /\ promises[p].state = "pending" => ~Cached(promises[p].engine)
         /\ ( /\ promises[p].state = "pending"
              /\ promises'[p].state # "pending"
              /\ (promises'[p].status # OkStatus \/ promises'[p].state = "rejected") )
            => /\ promises'[p].state = "rejected"
               /\ promises'[p].value.tag = "error"
               /\ engineCache' = engineCache
               /\ ~MapHas(engineCache', promises[p].engine)
               /\ ~MapHas(inflightRequests', promises[p].engine)
               /\ \A c \in CallsOf(p) :
                     /\ calls'[c].state = "rejected"
                     /\ calls'[c].value = promises'[p].value]_vars

C4_Witness ==
    \E c \in 1..Len(calls) :
        /\ calls[c].state = "rejected"
        /\ promises[calls[c].promise].status = NotFound
        /\ ~Cached(calls[c].engine)
        /\ ~MapHas(inflightRequests, calls[c].engine)

\* C5: an engine has a pending-fetch marker exactly while a fetch for it
\* is outstanding, the marker naming that fetch's promise; and a call for
\* an engine that is not cached and has no fetch outstanding (as after a
\* failed fetch) starts a network fetch.
MarkerMatchesOutstanding ==
    \A id \in EngineIds :
        /\ MapHas(inflightRequests, id) <=> PendingFor(id) # {}
        /\ MapHas(inflightRequests, id) => PendingFor(id) = {MapGet(inflightRequests, id)}
        /\ Cardinality({e \in inflightRequests : e.key = id}) <= 1

C5_MarkerClearedWhenFetchEnds ==
    /\ []MarkerMatchesOutstanding
    /\ [][\A id \in EngineIds :
            (NewCallsFor(id) # {} /\ ~Cached(id) /\ PendingFor(id) = {})
               => /\ fetchCount'[id] = fetchCount[id] + 1
                  /\ PendingFor(id)' # {}]_vars

C5_Witness ==
    \E p, q \in 1..Len(promises) :
        /\ p < q
        /\ promises[p].engine = promises[q].engine
        /\ promises[p].state = "rejected"
        /\ promises[q].state = "pending"
        /\ MapGet(inflightRequests, promises[q].engine) = q

\* C6 as stated: after clearEngineCache(id) the engine has neither a cache
\* entry nor a pending-fetch marker.
C6_EvictLeavesNoMarker ==
    lastOp.op = "clearEngineCache" =>
        /\ ~Cached(lastOp.id)
        /\ ~MapHas(inflightRequests, lastOp.id)

\* C6 as amended: clearEngineCache(id) leaves no cache entry for the engine
\* whether or not one existed, leaves the entries of the other engines and
\* every pending-fetch marker as they were, and running it again changes
\* nothing.
C6_EvictRemovesSnapshotOnly ==
    [][lastOp'.op = "clearEngineCache" =>
         /\ ~MapHas(engineCache', lastOp'.id)
         /\ \A e \in engineCache : e.key # lastOp'.id => e \in engineCache'
         /\ engineCache' \subseteq engineCache
         /\ inflightRequests' = inflightRequests
         /\ promises' = promises
         /\ ClearedCache(lastOp.id)' = engineCache']_vars

C6_Witness ==
    /\ lastOp.op = "clearEngineCache"
    /\ MapHas(inflightRequests, lastOp.id)
    /\ ~Cached(lastOp.id)
    /\ \E id \in EngineIds : Cached(id)

\* C7: the cache entries of an engine change only in a step that resolves a
\* fetch of that engine (the entry becomes that fetch's data), runs
\* clearEngineCache for that engine or runs clearAllCaches (the entry goes);
\* an engine never has two entries, and an entry holds data of its engine.
EntriesOf(cache, id) == {e \in cache : e.key = id}

C7_SnapshotChangesOnlyByFetchOrEvict ==
    [][\A id \in EngineIds :
         /\ Cardinality(EntriesOf(engineCache', id)) <= 1
         /\ \A e \in EntriesOf(engineCache', id) :
               e.value.tag = "data" /\ e.value.engine = id
         /\ EntriesOf(engineCache', id) # EntriesOf(engineCache, id) =>
               \/ /\ lastOp'.op = "jsonResolved" /\ lastOp'.id = id
                  /\ promises'[lastOp'.p].state = "fulfilled"
                  /\ EntriesOf(engineCache', id) =
                        {[key |-> id, value |-> promises'[lastOp'.p].value]}
               \/ /\ Evicts(id)
                  /\ EntriesOf(engineCache', id) = {}]_vars

C7_Witness ==
    \E id, other \in EngineIds :
        /\ id # other
        /\ Cached(id)
        /\ lastOp.op \in {"clearEngineCache", "fetchRejected", "response", "getSnapshot"}
        /\ lastOp.id = other
        /\ \E p \in 1..Len(promises) :
              promises[p].engine = other /\ promises[p].state = "rejected"

\* C8: a call for an engine that is neither cached nor being fetched starts
\* a fetch of its own also while a fetch for another engine is pending, the
\* other fetch is left as it was, and resolving a fetch changes the cache
\* entry of its own engine only.
C8_EnginesFetchIndependently ==
    [][\A a, b \in EngineIds :
         a # b =>
            /\ ( /\ PendingFor(a) # {}
                 /\ NewCallsFor(b) # {}
                 /\ ~Cached(b)
                 /\ PendingFor(b) = {} )
               => /\ fetchCount'[b] = fetchCount[b] + 1
                  /\ \A c \in NewCallsFor(b) :
                        /\ calls'[c].promise \notin PendingFor(a)
                        /\ promises'[calls'[c].promise].engine = b
                  /\ PendingFor(a)' = PendingFor(a)
                  /\ \A p \in PendingFor(a) : promises'[p] = promises[p]
            /\ (lastOp'.op = "jsonResolved" /\ lastOp'.id = a)
               => /\ EntriesOf(engineCache', b) = EntriesOf(engineCache, b)
                  /\ EntriesOf(inflightRequests', b) = EntriesOf(inflightRequests, b)
                  /\ MapGet(engineCache', a).engine = a]_vars

\* the fetch started second has completed first
C8_Witness ==
    \E p, q \in 1..Len(promises) :
        /\ p < q
        /\ promises[p].engine # promises[q].engine
        /\ promises[p].state = "pending"
        /\ promises[q].state = "fulfilled"
        /\ MapHas(engineCache, promises[q].engine)
        /\ ~MapHas(engineCache, promises[p].engine)

\* C9: switching the engine leaves the requests and their markers as they
\* were; a request of the old engine that was outstanding at the switch and
\* then succeeds puts its data into the cache under the old engine's id;
\* the entry stays until a step evicts that engine, and a call for the old
\* engine made meanwhile returns it without a network fetch.
C9_OldEngineFetchCompletesIntoCache ==
    [][/\ lastOp'.op = "switchEngine" =>
             /\ promises' = promises
             /\ inflightRequests' = inflightRequests
             /\ fetchCount' = fetchCount
       /\ \A p \in outstandingAtSwitch :
             LET id == promises[p].engine
                 entry == [key |-> id, value |-> TreeData(id, p)] IN
             /\ (promises[p].state = "pending" /\ promises'[p].state = "fulfilled")
                   => entry \in engineCache'
             /\ (promises[p].state = "fulfilled" /\ entry \in engineCache /\ ~Evicts(id))
                   => /\ entry \in engineCache'
                      /\ fetchCount'[id] = fetchCount[id]
                      /\ \A c \in NewCallsFor(id) :
                            /\ calls'[c].state = "fulfilled"
                            /\ calls'[c].value = entry.value]_vars

C9_Witness ==
    \E p \in outstandingAtSwitch :
        /\ promises[p].state = "fulfilled"
        /\ promises[p].engine # activeEngine
        /\ [key |-> promises[p].engine, value |-> promises[p].value] \in engineCache
        /\ \E c \in 1..Len(calls) :
              /\ calls[c].via = "cache"
              /\ calls[c].value = promises[p].value
        /\ fetchCount[promises[p].engine] = 1

\* C10 as stated: the error of a fetch that the remote answered with a
\* non-success status determines that status (answers with different
\* statuses never yield the same error), and the caller's check
\* isRateLimitError separates the error of a not-found answer from the error
\* of a 403 (authorization or quota) answer.
Answered(p) ==
    /\ promises[p].state = "rejected"
    /\ promises[p].status \in Statuses \ {OkStatus}

C10_FailureCarriesStatus ==
    \A p, q \in 1..Len(promises) :
        (Answered(p) /\ Answered(q)) =>
            /\ promises[p].value = promises[q].value
                  => promises[p].status = promises[q].status
            /\ (promises[p].status = NotFound /\ promises[q].status = Forbidden)
                  => isRateLimitError(promises[p].value) # isRateLimitError(promises[q].value)

\* ---------------------------------------------------------------- registry properties
\* the custom engines and the active id a reader of the stored item gets
StoredCustom == loadEngineMetadata(storedMetadata).customEngines

StoredActive == loadEngineMetadata(storedMetadata).activeEngineId

DuplicateError == <<"An engine with this repository and branch already exists">>

\* the step is a call of addEngine with an engine whose repository and
\* branch are those of an engine of the list
AddsRepoOf(engines) ==
    /\ lastOp'.op = "addEngine"
    /\ \E i \in 1..Len(engines) : SameRepo(engines[i], lastEngine')

\* C11: addEngine with the repository owner, name and branch of a stored
\* custom engine throws the duplicate error and leaves the stored item as it
\* was: the same custom engines, as many as before, and the same active id.
C11_DuplicateAddChangesNothing ==
    [][AddsRepoOf(StoredCustom) =>
         /\ result'.thrown = DuplicateError
         /\ result'.engine = NoEngine
         /\ storedMetadata' = storedMetadata
         /\ StoredCustom' = StoredCustom
         /\ Len(StoredCustom') = Len(StoredCustom)
         /\ StoredActive' = StoredActive]_vars

C11_Witness ==
    /\ lastOp.op = "addEngine"
    /\ result.thrown = DuplicateError
    /\ \E i \in 1..Len(StoredCustom) : SameRepo(StoredCustom[i], lastEngine)

\* C12 as stated: addEngine with the repository owner, name and branch of
\* any registered engine, default or custom, throws and stores nothing.
C12_AddRejectsRepoOfAnyEngine ==
    [][AddsRepoOf(getAllEngines(StoredCustom)) =>
         /\ result'.thrown # <<>>
         /\ storedMetadata' = storedMetadata]_vars

\* the step is a call of removeEngine that returned
Removed(id) ==
    /\ lastOp'.op = "removeEngine"
    /\ lastOp'.id = id
    /\ result'.thrown = <<>>

\* C13: when removeEngine removes the engine that is active, the item it
\* stores names the default engine as active, getActiveEngine returns that
\* default engine and the provider shows it; and no step stores an item
\* whose active id is that of a custom engine the step took off the list.
C13_RemoveActiveFallsBackToDefault ==
    [][/\ \A id \in RemoveTargets :
             (Removed(id) /\ StoredActive = id) =>
                /\ id \notin Ids(getAllEngines(StoredCustom'))
                /\ storedMetadata'.activeEngineId = DEFAULT_ENGINES[1].id
                /\ getActiveEngine(storedMetadata') = DEFAULT_ENGINES[1]
                /\ activeEngine' = DEFAULT_ENGINES[1].id
       /\ \A id \in Ids(StoredCustom) \ Ids(StoredCustom') :
             storedMetadata'.activeEngineId # id]_vars

C13_Witness ==
    /\ lastOp.op = "removeEngine"
    /\ result.thrown = <<>>
    /\ lastEngine.id = lastOp.id
    /\ lastOp.id \notin Ids(getAllEngines(StoredCustom))
    /\ getActiveEngine(storedMetadata) = DEFAULT_ENGINES[1]

CannotRemoveError == <<"Cannot remove default engines">>

\* C14: removeEngine with the id of a default engine throws 'Cannot remove
\* default engines' and leaves the stored item, hence the custom engines and
\* the active id, and the provider's state as they were.
C14_RemoveDefaultChangesNothing ==
    [][(lastOp'.op = "removeEngine" /\ lastOp'.id \in Ids(DEFAULT_ENGINES)) =>
         /\ result'.thrown = CannotRemoveError
         /\ storedMetadata' = storedMetadata
         /\ StoredCustom' = StoredCustom
         /\ StoredActive' = StoredActive
         /\ activeEngine' = activeEngine
         /\ allEngines' = allEngines]_vars

C14_Witness ==
    /\ lastOp.op = "removeEngine"
    /\ lastOp.id = DEFAULT_ENGINES[1].id
    /\ result.thrown = CannotRemoveError
    /\ Len(StoredCustom) >= 1

\* C15: setActiveEngine with an id that neither a default nor a stored
\* custom engine has throws 'Engine not found', whether or not a write
\* would succeed, and switchEngine, which calls it, leaves the stored item
\* and with it the active id as they were.
C15_SetActiveUnknownChangesNothing ==
    [][(/\ lastOp'.op \in {"switchEngine", "switchEngineFailed"}
        /\ lastOp'.id \notin Ids(getAllEngines(StoredCustom))) =>
         /\ lastOp'.op = "switchEngineFailed"
         /\ \A saveOk \in BOOLEAN :
               setActiveEngine(storedMetadata, expandedKeys, lastOp'.id, saveOk).thrown
                  = <<"Engine not found:", lastOp'.id>>
         /\ storedMetadata' = storedMetadata
         /\ StoredActive' = StoredActive
         /\ activeEngine' = activeEngine]_vars

C15_Witness ==
    /\ lastOp.op = "switchEngineFailed"
    /\ lastOp.id \notin Ids(getAllEngines(StoredCustom))
    /\ Len(StoredCustom) >= 1

\* C16: whatever the stored item is (absent, unparsable, with a null or a
\* missing list, with an active id no engine has), getActiveEngine returns
\* a registered engine: the first default engine when the item cannot be
\* read or its active id is stale or missing, else the engine the item
\* names; refreshEngines reports that engine and throws nothing.
StaleOrMissing ==
    \/ storedMetadata.tag \in {"absent", "unparsable", "jsonNullList"}
    \/ storedMetadata.activeEngineId
          \notin Ids(DEFAULT_ENGINES \o storedMetadata.customEngines)

C16_GetActiveNeverFails ==
    LET engines == DEFAULT_ENGINES \o StoredCustom
        active == getActiveEngine(storedMetadata) IN
    /\ \E i \in 1..Len(engines) : engines[i] = active
    /\ StaleOrMissing => active = DEFAULT_ENGINES[1]
    /\ ~StaleOrMissing => active.id = storedMetadata.activeEngineId
    /\ lastOp.op = "refreshEngines" => result = Result(<<>>, active)

C16_Witness ==
    /\ lastOp.op = "refreshEngines"
    /\ storedMetadata.tag = "json"
    /\ storedMetadata.activeEngineId = "stale"
    /\ Len(storedMetadata.customEngines) >= 1
    /\ result.engine = DEFAULT_ENGINES[1]

Threw ==
    \/ lastOp'.op \in {"addEngine", "removeEngine"} /\ result'.thrown # <<>>
    \/ lastOp'.op = "switchEngineFailed"

ProviderShows(stored) ==
    /\ activeEngine' = getActiveEngine(stored).id
    /\ allEngines' = IdList(DEFAULT_ENGINES \o loadEngineMetadata(stored).customEngines)

C18_RegistryOperationsAllOrNothing ==
    [][/\ Threw =>
             /\ storedMetadata' = storedMetadata
             /\ expandedKeys' = expandedKeys
             /\ engineCache' = engineCache
             /\ activeEngine' = activeEngine
             /\ allEngines' = allEngines
             /\ effectPending' = effectPending
       /\ (lastOp'.op = "addEngine" /\ result'.thrown = <<>>) =>
             /\ StoredCustom' = Append(StoredCustom, result'.engine)
             /\ StoredActive' = StoredActive
             /\ ProviderShows(storedMetadata')
       /\ \A id \in RemoveTargets :
             Removed(id) =>
                /\ id \notin Ids(StoredCustom')
                /\ id \notin expandedKeys'
                /\ ~MapHas(engineCache', id)
                /\ StoredActive' # id
                /\ ProviderShows(storedMetadata')
       /\ lastOp'.op = "switchEngine" =>
             /\ StoredActive' = lastOp'.id
             /\ StoredCustom' = StoredCustom
             /\ activeEngine' = lastOp'.id
             /\ ~MapHas(engineCache', activeEngine)]_vars

\* a write failed while the engine to remove had a snapshot and an item
C18_Witness ==
    /\ lastOp.op = "removeEngine"
    /\ result.thrown = <<"Failed to save engine configuration">>
    /\ lastOp.id \in Ids(StoredCustom)
    /\ lastOp.id \in expandedKeys
    /\ Cached(lastOp.id)

EmptyField(engine) ==
    \/ engine.repoOwner = ""
    \/ engine.repoName = ""
    \/ engine.branch = ""

\* C19 as stated: addEngine with an engine whose repoOwner, repoName or
\* branch is empty throws and stores nothing.
C19_AddRejectsEmptyField ==
    [][(lastOp'.op = "addEngine" /\ EmptyField(lastEngine')) =>
         /\ result'.thrown # <<>>
         /\ storedMetadata' = storedMetadata]_vars

\* C19 as amended: the submit handler of AddEngineForm returns without
\* calling addEngine when the form's repoOwner, repoName or branch is
\* empty: it throws nothing and the stored item and the provider's list stay
\* as they were; and every engine a submit adds has the three fields
\* non-empty.
C19_FormRejectsEmptyField ==
    [][lastOp'.op = "handleSubmit" =>
         /\ EmptyField(lastEngine') =>
               /\ result' = Result(<<>>, NoEngine)
               /\ storedMetadata' = storedMetadata
               /\ allEngines' = allEngines
         /\ \A i \in 1..Len(StoredCustom') :
               StoredCustom'[i].id \notin Ids(StoredCustom) => ~EmptyField(StoredCustom'[i])]_vars

C19_Witness ==
    /\ lastOp.op = "handleSubmit"
    /\ EmptyField(lastEngine)
    /\ result = Result(<<>>, NoEngine)
    /\ \A i \in 1..Len(StoredCustom) : ~EmptyField(StoredCustom[i])
    /\ Len(StoredCustom) >= 1

\* the stored item names as active an engine of the combined list of default
\* and stored custom engines (nothing stored yet names none)
PersistedActiveIsListed(stored) ==
    \/ stored.tag = "absent"
    \/ /\ stored.tag = "json"
       /\ stored.activeEngineId \in Ids(getAllEngines(stored.customEngines))

\* C30: from a registry whose stored active id is that of a listed engine,
\* every addEngine, removeEngine and switchEngine (setActiveEngine), whether
\* it returns or throws, leaves a stored active id that is that of an engine
\* of the default and custom engines then stored.
C30_PersistedActiveStaysListed ==
    [][PersistedActiveIsListed(storedMetadata)
          => PersistedActiveIsListed(storedMetadata')]_vars

\* the active engine, a stored custom engine, was removed while another
\* custom engine stays stored, and the stored active id is listed
C30_Witness ==
    /\ lastOp.op = "removeEngine"
    /\ result.thrown = <<>>
    /\ lastEngine.id = lastOp.id
    /\ ~isDefaultEngine(lastOp.id)
    /\ Len(StoredCustom) >= 1
    /\ storedMetadata.tag = "json"
    /\ PersistedActiveIsListed(storedMetadata)

\* ---------------------------------------------------------------- gallery properties
\* C20 as stated: filtering the loaded images by the category uncategorized
\* yields exactly the images whose path has no separator, with the category
\* tree of the repository and with no tree at all, and isImageInCategory
\* for that category is true of exactly those images; a repository with a
\* folder named uncategorized included.
RootImages == SelectSeq(allImages, LAMBDA img : ~IncludesSeparator(img.path))

C20_UncategorizedIsRootImagesOnly ==
    /\ selectedCategory = Uncategorized =>
          filterByCategory(allImages, selectedCategory, categoryTree) = RootImages
    /\ \A tree \in {categoryTree, {}} :
          filterByCategory(allImages, Uncategorized, tree) = RootImages
    /\ \A img \in Elements(allImages) :
          isImageInCategory(img.path, Uncategorized, categoryTree)
              <=> img \in Elements(RootImages)

\* ---------------------------------------------------------------- query properties
\* the sort key of an image under a sort option, larger for later
SortKey(option, img) ==
    CASE option = "name-asc"  -> LocaleRank(img.name)
      [] option = "name-desc" -> 0 - LocaleRank(img.name)
      [] option = "size-asc"  -> (IF img.size = NoSize THEN 0 ELSE img.size)
      [] option = "size-desc" -> 0 - (IF img.size = NoSize THEN 0 ELSE img.size)

\* how often an element occurs in an array
Occurrences(array, e) == Cardinality({i \in 1..Len(array) : array[i] = e})

IsPermutation(a, b) ==
    /\ Len(a) = Len(b)
    /\ \A e \in Elements(a) \cup Elements(b) : Occurrences(a, e) = Occurrences(b, e)

\* the position of an element in an array of distinct elements
IndexOf(array, e) == CHOOSE i \in 1..Len(array) : array[i] = e

\* C21: for every sort option but default, sortImages returns a permutation
\* of its input that is ordered by the option's key (the name, or the size
\* with a missing size as zero), in which images with equal keys keep the
\* order they had in the input; and the input array is as it was.
C21_SortIsStablePermutation ==
    (returned.op = "sortImages" /\ args.sortOption # "default") =>
        LET option == args.sortOption
            sorted == returned.sorted IN
        /\ IsPermutation(sorted, args.images)
        /\ \A i, j \in 1..Len(sorted) :
              i < j => /\ SortKey(option, sorted[i]) <= SortKey(option, sorted[j])
                       /\ SortKey(option, sorted[i]) = SortKey(option, sorted[j])
                             => IndexOf(args.images, sorted[i]) < IndexOf(args.images, sorted[j])
        /\ returned.input = args.images

\* a sort that moved images and had images with equal keys to keep in order
C21_Witness ==
    /\ returned.op = "sortImages" /\ args.sortOption # "default"
    /\ returned.sorted # args.images
    /\ \E i, j \in 1..Len(args.images) :
          /\ i < j
          /\ SortKey(args.sortOption, args.images[i]) = SortKey(args.sortOption, args.images[j])

\* C22: paginateImages returns the elements at the positions pageIndex *
\* pageSize (counted from zero) up to, not including, that plus pageSize, in
\* the order of the input and cut off at its end; it returns the empty
\* sequence when pageIndex * pageSize is not below the length of the input.
C22_PaginateReturnsTheSlice ==
    returned.op = "paginateImages" =>
        LET start == args.pageIndex * args.pageSize
            len == Len(args.images)
            n == IF start >= len THEN 0
                 ELSE IF start + args.pageSize > len THEN len - start
                 ELSE args.pageSize IN
        /\ returned.page = [k \in 1..n |-> args.images[start + k]]
        /\ start >= len => returned.page = <<>>

\* a page asked for behind the end of a list that has images
C22_Witness ==
    /\ returned.op = "paginateImages"
    /\ Len(args.images) > 0
    /\ args.pageIndex * args.pageSize >= Len(args.images)
    /\ returned.page = <<>>

\* the first whole pages of a list
Pages(images, k) ==
    SubSeq(images, 1, IF k * PageSize > Len(images) THEN Len(images) ELSE k * PageSize)

\* the list the gallery shows pages of: the images filtered by the selected
\* category, then by the search query, then sorted
Pipeline ==
    sortImages(filterByQuery(filterByCategory(allImages, selectedCategory, categoryTree),
                             searchQuery),
               sortOption).sorted

\* C23: in every settled state the displayed images are the first whole
\* pages of the list that results from filtering all images by the selected
\* category, then by the search query, and then sorting by the sort option.
C23_DisplayedIsPagesOfPipeline ==
    Settled => /\ filtered = Pipeline
               /\ displayedImages = Pages(Pipeline, page + 1)

\* a second page shown of images filtered by category and query and sorted
C23_Witness ==
    /\ Settled
    /\ selectedCategory # <<>> /\ Trim(searchQuery) # "" /\ sortOption # "default"
    /\ page >= 1
    /\ Len(displayedImages) > PageSize
    /\ Len(Pipeline) < Len(filterByCategory(allImages, selectedCategory, categoryTree))
    /\ Pipeline # filterByQuery(filterByCategory(allImages, selectedCategory, categoryTree),
                                searchQuery)

\* hasMore says that not every image is displayed
HasMoreIsExact == hasMore <=> Len(displayedImages) < Len(filtered)

C28_DisplayedIsPrefixWithoutRepeats ==
    /\ \E k \in 0..Len(filtered) : displayedImages = SubSeq(filtered, 1, k)
    /\ \A i, j \in 1..Len(displayedImages) :
          displayedImages[i] = displayedImages[j] => i = j

\* ---------------------------------------------------------------- count properties
\* the entries of a listing that are files with an accepted extension whose
\* first folder is not excluded
AcceptedEntries(engine, tree) ==
    Cardinality({i \in 1..Len(tree) :
                    /\ tree[i].type = "blob"
                    /\ isImageFile(tree[i].path, engine.imageExtensions)
                    /\ CategoryOf(tree[i].path) \notin engine.excludedFolders})

\* C24: for every engine and listing, the counts of the root categories (the
\* flat categories, the roots of the category tree, and the total the
\* sidebar shows) sum to the number of entries that are files with an
\* accepted extension and a first folder that is not excluded, which is the
\* length of the image list of the same listing.
C24_RootCountsSumToImages ==
    returned.op = "loadData" =>
        LET n == AcceptedEntries(args.engine, args.tree) IN
        /\ SumCounts(returned.categories) = n
        /\ SumCounts(returned.categoryTree) = n
        /\ returned.totalCount = n
        /\ Len(returned.images) = n

\* a listing with images in several categories and entries that are left out
C24_Witness ==
    /\ returned.op = "loadData"
    /\ Cardinality(returned.categories) >= 2
    /\ Len(returned.images) >= 2
    /\ Len(returned.images) < Len(args.tree) - 1
    /\ args.engine.excludedFolders # {}

\* every node of category trees
RECURSIVE AllNodes(_)
AllNodes(nodes) == nodes \cup UNION {AllNodes(n.children) : n \in nodes}

\* C25: in every category tree built from a listing, the total count of
\* each node is its direct count plus the total counts of its children.
C25_TotalIsDirectPlusChildren ==
    returned.op = "loadData" =>
        \A n \in AllNodes(returned.categoryTree) :
            getTotalCount(n) = n.directCount + SumCounts(n.children)

\* a tree with a node that has images of its own and a child with images
C25_Witness ==
    /\ returned.op = "loadData"
    /\ \E n \in AllNodes(returned.categoryTree) :
          n.directCount > 0 /\ n.children # {} /\ getTotalCount(n) > n.directCount

\* ---------------------------------------------------------------- load properties
\* the step is the success of a request that was outstanding when
\* switchEngine cleared the cache entry of its engine
CompletesAfterClear(p) ==
    /\ p \in outstandingAtSwitch
    /\ promises[p].state = "pending"
    /\ promises'[p].state = "fulfilled"

\* C27 as stated: the success of a request that was in flight when the cache
\* entry of its engine was cleared puts no snapshot for that engine back into
\* the cache.
C27_CompletionAfterClearCachesNothing ==
    [][\A p \in 1..Len(promises) :
          CompletesAfterClear(p) => ~MapHas(engineCache', promises[p].engine)]_vars

\* C27, amended: while a request that was in flight at the clear is pending
\* the cache has no entry for its engine, and its success stores its data
\* under the engine's id; the clear does not cancel or invalidate the request.
C27_ClearedIdEmptyUntilFetchCompletes ==
    [][\A p \in 1..Len(promises') :
          LET id == promises'[p].engine IN
          /\ (p \in outstandingAtSwitch' /\ promises'[p].state = "pending")
                => ~MapHas(engineCache', id)
          /\ (p \in 1..Len(promises) /\ CompletesAfterClear(p))
                => /\ MapHas(engineCache', id)
                   /\ MapGet(engineCache', id) = TreeData(id, p)]_vars

\* the request of the engine left by a switch has just succeeded, and its
\* data are in the cache under the id of that engine
C27_Witness ==
    /\ lastOp.op = "jsonResolved"
    /\ lastOp.id # activeEngine
    /\ \E p \in outstandingAtSwitch :
          /\ promises[p].engine = lastOp.id
          /\ promises[p].state = "fulfilled"
          /\ MapHas(engineCache, lastOp.id)
          /\ MapGet(engineCache, lastOp.id) = TreeData(lastOp.id, p)

\* an earlier loadData ran for another engine than the latest one
SwitchedDuringLoads == \E k \in 1..(NumLoads - 1) : LoadEngine(k) # LoadEngine(NumLoads)

\* C26: after a change of the active engine, once every loadData has
\* finished and the one for the active engine succeeded, App holds the data
\* of the active engine; and no step clears the loading flag while the
\* loadData for the active engine is outstanding.
C26_LateLoadNeverOverwrites ==
    /\ [](( /\ SwitchedDuringLoads
            /\ ~effectPending
            /\ loadsDone = 1..NumLoads
            /\ \A c \in LoadCalls(NumLoads) : calls[c].state = "fulfilled" )
          => shownData.engine = activeEngine)
    /\ [][( /\ SwitchedDuringLoads
            /\ ~effectPending
            /\ loading /\ ~loading' )
          => NumLoads \in loadsDone']_vars

====
